---- MODULE Spec2Model ----
(***************************************************************************)
(* The invitation lifecycle of functions/invitations.js: six callable      *)
(* Cloud Functions over the Firestore collections 'invitations' and        *)
(* 'users' and a mail transporter.  Every handler is an async function; a  *)
(* call is split at the awaited reads and writes of 'invitations': an      *)
(* action is one such I/O together with the synchronous code around it.    *)
(* An awaited query of 'users' (never written here) and an awaited         *)
(* sendMail (read by no invocation) are taken in the step of the           *)
(* 'invitations' I/O next to them.  Invocations interleave at these points *)
(* (Spec); SerialSpec runs one call to completion at a time.  The response *)
(* and the mail of a step are visible in the state that follows it and are *)
(* handed over (Deliver) before anything else happens.  PageSpec puts the  *)
(* registration page (src/app/register/page.tsx.new) beside the functions: *)
(* the page verifies the link, registers the account and accepts the       *)
(* invitation while other clients call the functions.                      *)
(***************************************************************************)
EXTENDS Integers, Sequences, FiniteSets, TLC

\* ---------------------------------------------------------------- bounds
MaxIds == 2
MaxTokens == 2
MaxCalls == 2
MaxBatch == 2
MaxSecondTicks == 1
MaxLifetimeJumps == 1

\* ------------------------------------------------------- program constants
\* 7 * 24 * 60 * 60 * 1000 ms added to Date.now() for expiresAt
InviteLifetimeMs == 7 * 24 * 60 * 60 * 1000

\* an absent Timestamp field of a document
NoTime == -1
\* an absent string field / a falsy string input
NoString == ""

Ids == 1..MaxIds
Procs == 1..MaxCalls
\* tokens are the values generateToken has returned so far: 1..nextToken-1
Tokens == 1..MaxTokens
\* the empty (falsy) token string of a request
EmptyToken == 0
Emails == {"a@swim.org", "m@swim.org"}
UserIds == {"uid123", "uid456"}

\* request.auth of a caller: uid = "" stands for request.auth == null,
\* role is the custom claim request.auth.token.role
Anonymous == [uid |-> NoString, role |-> NoString, email |-> NoString]
ClaimAdmin == [uid |-> "admin1", role |-> "admin", email |-> "admin1@swim.org"]
\* the same administrator with stale claims: the role is only in 'users'
ProfileAdmin == [uid |-> "admin1", role |-> NoString, email |-> "admin1@swim.org"]
Member == [uid |-> "member1", role |-> "supporter", email |-> "m@swim.org"]
Callers == {Anonymous, ClaimAdmin, ProfileAdmin, Member}

\* the documents of the 'users' collection when the functions are deployed
InitialUsers ==
    { [uid |-> "admin1", email |-> "admin1@swim.org", role |-> "admin"],
      [uid |-> "member1", email |-> "m@swim.org", role |-> "supporter"] }

VARIABLES
    invitations,   \* the 'invitations' collection: a function id -> document
    users,         \* the 'users' collection: a set of documents
    mailed,        \* the message transporter.sendMail delivered in the last step
    now,           \* the clock, in ms (Date.now(), Timestamp.now(), serverTimestamp)
    nextId,        \* how many auto-ids db.collection('invitations').doc() has made
    nextToken,     \* how many tokens generateToken has made
    calls,         \* the invocations in flight, one per slot
    returned,      \* the call that returned in the last step, with its response
    acceptedOk,    \* history: ids on which acceptInvitation has returned success
    retired,       \* history: tokens replaced by a resendInvitation
    page           \* the registration page of one visitor (RegisterForm)

vars == <<invitations, users, mailed, now, nextId, nextToken, calls, returned,
          acceptedOk, retired, page>>

\* the variables of the Cloud Functions and their stores
backend == <<invitations, users, mailed, now, nextId, nextToken, calls, returned,
             acceptedOk, retired>>

\* ------------------------------------------------------------- helpers

\* Timestamp.seconds of a time given in ms
TsSeconds(ms) == ms \div 1000

\* a variant of ExpiryFrom that adds the seven days in seconds
ExpiryFrom_InSeconds(t) == t + 7 * 24 * 60 * 60

\* Timestamp.fromDate(new Date(Date.now() + 7 * 24 * 60 * 60 * 1000))
ExpiryFrom(t) == t + InviteLifetimeMs

\* a variant of IsExpired that also rejects in the second of the expiry
IsExpired_OnOrAfter(expiresAt, t) == TsSeconds(expiresAt) <= TsSeconds(t)

\* invitation.expiresAt.seconds < now.seconds
IsExpired(expiresAt, t) == TsSeconds(expiresAt) < TsSeconds(t)

Exists(id) == id \in DOMAIN invitations

\* request.auth is set
IsAuthed(caller) == caller.uid # NoString

\* a variant of IsAdmin without the fallback to 'users'
IsAdmin_ClaimOnly(caller) == caller.role = "admin"

\* the role check: the custom claim, else the caller's document in 'users'
IsAdmin(caller) ==
    \/ caller.role = "admin"
    \/ \E u \in users : u.uid = caller.uid /\ u.role = "admin"

\* throw new Error(msg), and the rethrow of a handler's outer catch:
\* new Error(`${prefix}${err.message}`)
Thrown(prefix, msg) == [kind |-> "error", prefix |-> prefix, msg |-> msg,
                        id |-> 0, email |-> NoString, role |-> NoString]
\* the class of the value a response is thrown as: every throw of the
\* handlers, and every rethrow of their outer catch, is `new Error(...)`
ErrorClass(res) == IF res.kind = "error" THEN "Error" ELSE NoString
\* return { success: true }
Success == [kind |-> "success", prefix |-> NoString, msg |-> NoString,
            id |-> 0, email |-> NoString, role |-> NoString]
NoResult == [kind |-> "none", prefix |-> NoString, msg |-> NoString,
             id |-> 0, email |-> NoString, role |-> NoString]
\* return results: the two lists are kept in the call (success, failed)
BatchResults == [kind |-> "results", prefix |-> NoString, msg |-> NoString,
                 id |-> 0, email |-> NoString, role |-> NoString]
\* return invitations: the array is kept in the call (list)
Listing == [kind |-> "list", prefix |-> NoString, msg |-> NoString,
            id |-> 0, email |-> NoString, role |-> NoString]
\* return { valid: false, error: err.message }
Invalid(msg) == [kind |-> "invalid", prefix |-> NoString, msg |-> msg,
                 id |-> 0, email |-> NoString, role |-> NoString]
\* return { valid: true, invitation: { id, email, role: role || 'supporter' } }
Valid(doc) == [kind |-> "valid", prefix |-> NoString, msg |-> NoString,
               id |-> doc.id, email |-> doc.email,
               role |-> IF doc.role # NoString THEN doc.role ELSE "supporter"]

\* mailOptions of a message: its recipient, the token in its link, and
\* whether it is the first invitation or the resent one
Mail(to, token, kind) == [to |-> to, token |-> token, kind |-> kind]
NoMail == Mail(NoString, EmptyToken, "none")

\* a slot with no invocation; also the value of returned when the last step
\* returned nothing.  A call that fails before it reads anything is returned
\* without its request.
IdleCall == [op |-> "none", pc |-> "idle", emails |-> <<>>, i |-> 0,
             by |-> NoString, id |-> 0, token |-> EmptyToken, email |-> NoString,
             userId |-> NoString, exp |-> NoTime, success |-> <<>>,
             failed |-> <<>>, list |-> <<>>, res |-> NoResult, late |-> FALSE]

InFlight(p) == calls[p].pc # "idle"

\* the last step left no response and no mail that is still to be delivered
Ready == returned.pc = "idle" /\ mailed = NoMail

\* a new invocation takes the first slot that is free
Free(p) == Ready /\ ~InFlight(p) /\ \A q \in 1..(p - 1) : InFlight(q)

\* slot p's invocation is waiting at the await named by pc
At(p, pc) == Ready /\ calls[p].pc = pc

\* the invocation ends with response r: its request and response are kept,
\* its locals are gone
Finish(c, r) == [c EXCEPT !.pc = "done", !.res = r, !.i = 0, !.by = NoString,
                          !.exp = NoTime]

\* slot p continues as c, or, when c has ended, is freed and c is returned
Settle(p, c) ==
    IF c.pc = "done"
    THEN /\ calls' = [calls EXCEPT ![p] = IdleCall]
         /\ returned' = c
    ELSE /\ calls' = [calls EXCEPT ![p] = c]
         /\ returned' = IdleCall

Init ==
    /\ invitations = << >>
    /\ users = InitialUsers
    /\ mailed = NoMail
    /\ now = 0
    /\ nextId = 1
    /\ nextToken = 1
    /\ calls = [p \in Procs |-> IdleCall]
    /\ returned = IdleCall
    /\ acceptedOk = {}
    /\ retired = {}
    /\ page = [pc |-> "closed",
               invitation |-> [id |-> 0, email |-> NoString, role |-> NoString],
               email |-> NoString, error |-> NoString, success |-> FALSE,
               registered |-> "no", uid |-> NoString,
               accept |-> [invitationId |-> 0, userId |-> NoString], slot |-> 0]

\* ------------------------------------------------------ sendInvitations

\* request.data.emails: the lists of at most MaxBatch addresses
BatchInputs == UNION { [1..n -> Emails] : n \in 0..MaxBatch }
\* request.data.invitedBy
InvitedByInputs == {NoString}

\* a variant of NextEmail that returns the results at the first failure
NextEmail_AbortOnFailure(c) ==
    IF c.i = Len(c.emails) \/ c.failed # <<>>
    THEN Finish(c, BatchResults)
    ELSE [c EXCEPT !.i = c.i + 1, !.pc = "send_queries", !.token = EmptyToken,
                   !.exp = NoTime, !.id = 0]

\* `continue` / the end of the for-of body: the next email, or return results
NextEmail(c) ==
    IF c.i = Len(c.emails)
    THEN Finish(c, BatchResults)
    ELSE [c EXCEPT !.i = c.i + 1, !.pc = "send_queries", !.token = EmptyToken,
                   !.exp = NoTime, !.id = 0]

\* a variant of UserExists that looks the email up among the user ids
UserExists_ByUid(email) == \E u \in users : u.uid = email

\* db.collection('users').where('email', '==', email): the snapshot is not empty
UserExists(email) == \E u \in users : u.email = email

\* a variant of PendingFor that passes over the pending invitations that have
\* expired
PendingFor_Unexpired(email) ==
    { id \in DOMAIN invitations :
        /\ invitations[id].email = email
        /\ invitations[id].status = "pending"
        /\ ~IsExpired(invitations[id].expiresAt, now) }

\* where('email', '==', email).where('status', '==', 'pending')
PendingFor(email) ==
    { id \in DOMAIN invitations :
        invitations[id].email = email /\ invitations[id].status = "pending" }

\* the document written by invitationRef.set({...})
NewInvitation(id, email, token, by, expiresAt, t) ==
    [id |-> id, email |-> email, token |-> token, status |-> "pending",
     createdAt |-> t, createdBy |-> by, expiresAt |-> expiresAt,
     updatedAt |-> NoTime, acceptedAt |-> NoTime, acceptedBy |-> NoString,
     role |-> NoString]

\* the two queries of the current email of call c ('users' by email, then
\* the pending invitations by email); when both are empty, generateToken(),
\* Date.now() + 7 days and the new document's auto-id
SendQueries(p, c) ==
    LET email == c.emails[c.i]
    IN  IF UserExists(email)
        THEN /\ Settle(p, NextEmail([c EXCEPT !.failed =
                    Append(@, [email |-> email, reason |-> "User already exists"])]))
             /\ UNCHANGED <<nextId, nextToken>>
        ELSE IF PendingFor(email) # {}
        THEN /\ Settle(p, NextEmail([c EXCEPT !.failed =
                    Append(@, [email |-> email, reason |-> "Invitation already sent"])]))
             /\ UNCHANGED <<nextId, nextToken>>
        ELSE /\ nextToken <= MaxTokens
             /\ nextId <= MaxIds
             /\ Settle(p, [c EXCEPT !.pc = "send_set", !.token = nextToken,
                                    !.exp = ExpiryFrom(now), !.id = nextId])
             /\ nextToken' = nextToken + 1
             /\ nextId' = nextId + 1

\* the call arrives: the auth check, the role check, the input validation and
\* the queries of the first email
SendInvitations(p, caller, emails, invitedBy) ==
    /\ Free(p)
    /\ LET c == [IdleCall EXCEPT !.op = "send"]
       IN  IF ~IsAuthed(caller)
           THEN /\ Settle(p, Finish(c, Thrown(NoString,
                     "Unauthorized: You must be logged in to send invitations")))
                /\ UNCHANGED <<nextId, nextToken>>
           ELSE IF ~IsAdmin(caller)
           THEN /\ Settle(p, Finish(c, Thrown("Failed to send invitations: ",
                     "Unauthorized: Only admins can send invitations")))
                /\ UNCHANGED <<nextId, nextToken>>
           ELSE IF Len(emails) = 0
           THEN /\ Settle(p, Finish(c, Thrown("Failed to send invitations: ",
                     "Invalid input: emails must be a non-empty array")))
                /\ UNCHANGED <<nextId, nextToken>>
           ELSE SendQueries(p, [c EXCEPT !.pc = "send_queries", !.emails = emails,
                                  !.i = 1,
                                  !.by = IF invitedBy # NoString THEN invitedBy
                                         ELSE caller.email])
    /\ UNCHANGED <<invitations, users, mailed, now, acceptedOk, retired>>

\* the next iteration of the for-of loop: the queries of the next email
SendNextQueries(p) ==
    /\ At(p, "send_queries")
    /\ SendQueries(p, calls[p])
    /\ UNCHANGED <<invitations, users, mailed, now, acceptedOk, retired>>

\* a variant of SendSetAndMail that queries the pending invitations of the
\* email again at the write and writes nothing when there is one
SendSetAndMail_Rechecks(p, delivered) ==
    LET c == calls[p]
        email == c.emails[c.i]
    IN  /\ At(p, "send_set")
        /\ IF PendingFor(email) # {}
           THEN /\ UNCHANGED <<invitations, mailed>>
                /\ Settle(p, NextEmail([c EXCEPT !.failed =
                        Append(@, [email |-> email, reason |-> "Invitation already sent"])]))
           ELSE /\ invitations' = (c.id :> NewInvitation(c.id, email, c.token,
                                                         c.by, c.exp, now)) @@ invitations
                /\ IF delivered
                   THEN /\ mailed' = Mail(email, c.token, "invitation")
                        /\ Settle(p, NextEmail([c EXCEPT !.success = Append(@, email)]))
                   ELSE /\ mailed' = NoMail
                        /\ Settle(p, NextEmail([c EXCEPT !.failed =
                                Append(@, [email |-> email, reason |-> "sendMail rejected"])]))
        /\ UNCHANGED <<users, now, nextId, nextToken, acceptedOk, retired>>

\* await invitationRef.set({...}), createdAt being the server's time of the
\* write, then await transporter.sendMail(mailOptions): delivered, or it
\* rejects and the per-email catch records the failure.  The mail touches
\* nothing another invocation reads, so its step is taken with the write's.
SendSetAndMail(p, delivered) ==
    LET c == calls[p]
        email == c.emails[c.i]
    IN  /\ At(p, "send_set")
        /\ invitations' = (c.id :> NewInvitation(c.id, email, c.token,
                                                 c.by, c.exp, now)) @@ invitations
        /\ IF delivered
           THEN /\ mailed' = Mail(email, c.token, "invitation")
                /\ Settle(p, NextEmail([c EXCEPT !.success = Append(@, email)]))
           ELSE /\ mailed' = NoMail
                /\ Settle(p, NextEmail([c EXCEPT !.failed =
                        Append(@, [email |-> email, reason |-> "sendMail rejected"])]))
        /\ UNCHANGED <<users, now, nextId, nextToken, acceptedOk, retired>>

\* ----------------------------------------------------- resendInvitation

\* a variant of ResendFields that also writes status: 'pending'
ResendFields_Reopen(doc, token, expiresAt, t) ==
    [doc EXCEPT !.token = token, !.expiresAt = expiresAt, !.updatedAt = t,
                !.status = "pending"]

\* a variant of ResendFields that renews the expiry but keeps the old token
ResendFields_KeepToken(doc, token, expiresAt, t) ==
    [doc EXCEPT !.expiresAt = expiresAt, !.updatedAt = t]

\* a variant of ResendFields that stores the record as the call read it (a
\* pending one) with the new fields, as a set() of the whole document would
ResendFields_WholeRecord(doc, token, expiresAt, t) ==
    [doc EXCEPT !.token = token, !.expiresAt = expiresAt, !.updatedAt = t,
                !.status = "pending", !.acceptedAt = NoTime,
                !.acceptedBy = NoString]

\* invitationDoc.ref.update({token, expiresAt, updatedAt}): the other fields stay
ResendFields(doc, token, expiresAt, t) ==
    [doc EXCEPT !.token = token, !.expiresAt = expiresAt, !.updatedAt = t]

\* a variant of ResendRefusal without the status check
ResendRefusal_NoStatusCheck(id) ==
    IF ~Exists(id) THEN "Invitation not found" ELSE NoString

\* a variant of ResendRefusal that also refuses an invitation past its expiry
ResendRefusal_ChecksExpiry(id) ==
    IF ~Exists(id) THEN "Invitation not found"
    ELSE IF invitations[id].status # "pending"
    THEN "Cannot resend an invitation that has already been accepted"
    ELSE IF IsExpired(invitations[id].expiresAt, now)
    THEN "Invitation has expired"
    ELSE NoString

\* why the document that was read cannot be resent ("" when it can)
ResendRefusal(id) ==
    IF ~Exists(id) THEN "Invitation not found"
    ELSE IF invitations[id].status # "pending"
    THEN "Cannot resend an invitation that has already been accepted"
    ELSE NoString

\* the call arrives: the auth and role checks, the get of the document, the
\* two checks on it, generateToken() and the new expiry
ResendGet(p, caller, id) ==
    /\ Free(p)
    /\ LET c == [IdleCall EXCEPT !.op = "resend", !.id = id]
           u == [IdleCall EXCEPT !.op = "resend"]
       IN  IF ~IsAuthed(caller)
           THEN /\ Settle(p, Finish(u, Thrown(NoString,
                     "Unauthorized: You must be logged in to resend invitations")))
                /\ UNCHANGED nextToken
           ELSE IF ~IsAdmin(caller)
           THEN /\ Settle(p, Finish(u, Thrown("Failed to resend invitation: ",
                     "Unauthorized: Only admins can resend invitations")))
                /\ UNCHANGED nextToken
           ELSE IF ResendRefusal(id) # NoString
           THEN /\ Settle(p, Finish(c, Thrown("Failed to resend invitation: ",
                                              ResendRefusal(id))))
                /\ UNCHANGED nextToken
           ELSE /\ nextToken <= MaxTokens
                /\ Settle(p, [c EXCEPT !.pc = "resend_update", !.token = nextToken,
                                       !.exp = ExpiryFrom(now),
                                       !.email = invitations[id].email])
                /\ nextToken' = nextToken + 1
    /\ UNCHANGED <<invitations, users, mailed, now, nextId, acceptedOk, retired>>

\* a variant of ResendUpdateAndMail that restores the document when sendMail
\* rejects
ResendUpdateAndMail_RollsBack(p, delivered) ==
    LET c == calls[p]
    IN  /\ At(p, "resend_update")
        /\ IF ~Exists(c.id)
           THEN /\ Settle(p, Finish(c, Thrown("Failed to resend invitation: ",
                                              "NOT_FOUND: No document to update")))
                /\ UNCHANGED <<invitations, retired, mailed>>
           ELSE IF delivered
           THEN /\ invitations' = [invitations EXCEPT ![c.id] =
                     ResendFields(@, c.token, c.exp, now)]
                /\ retired' = retired \cup {invitations[c.id].token}
                /\ mailed' = Mail(c.email, c.token, "resent")
                /\ Settle(p, Finish(c, Success))
           ELSE /\ Settle(p, Finish(c, Thrown("Failed to resend invitation: ",
                                              "sendMail rejected")))
                /\ UNCHANGED <<invitations, retired, mailed>>
        /\ UNCHANGED <<users, now, nextId, nextToken, acceptedOk>>

\* a variant of ResendUpdateAndMail that writes with set(..., { merge: true }),
\* which creates the document when it is missing
ResendUpdateAndMail_Upserts(p, delivered) ==
    LET c == calls[p]
        doc == IF Exists(c.id) THEN invitations[c.id]
               ELSE [NewInvitation(c.id, NoString, EmptyToken, NoString, NoTime,
                                   NoTime) EXCEPT !.status = NoString]
    IN  /\ At(p, "resend_update")
        /\ invitations' = (c.id :> ResendFields(doc, c.token, c.exp, now))
                             @@ invitations
        /\ retired' = retired \cup {doc.token}
        /\ IF delivered
           THEN /\ mailed' = Mail(c.email, c.token, "resent")
                /\ Settle(p, Finish(c, Success))
           ELSE /\ mailed' = NoMail
                /\ Settle(p, Finish(c, Thrown("Failed to resend invitation: ",
                                              "sendMail rejected")))
        /\ UNCHANGED <<users, now, nextId, nextToken, acceptedOk>>

\* await invitationDoc.ref.update({...}): Firestore rejects the update of a
\* document that no longer exists; then await transporter.sendMail(mailOptions)
\* to the address that was read, taken in the same step as the write
ResendUpdateAndMail(p, delivered) ==
    LET c == calls[p]
    IN  /\ At(p, "resend_update")
        /\ IF ~Exists(c.id)
           THEN /\ Settle(p, Finish(c, Thrown("Failed to resend invitation: ",
                                              "NOT_FOUND: No document to update")))
                /\ UNCHANGED <<invitations, retired, mailed>>
           ELSE /\ invitations' = [invitations EXCEPT ![c.id] =
                     ResendFields(@, c.token, c.exp, now)]
                /\ retired' = retired \cup {invitations[c.id].token}
                /\ IF delivered
                   THEN /\ mailed' = Mail(c.email, c.token, "resent")
                        /\ Settle(p, Finish(c, Success))
                   ELSE /\ mailed' = NoMail
                        /\ Settle(p, Finish(c, Thrown("Failed to resend invitation: ",
                                                      "sendMail rejected")))
        /\ UNCHANGED <<users, now, nextId, nextToken, acceptedOk>>

\* ----------------------------------------------------- deleteInvitation

\* a variant of DeleteInvitation that deletes only a pending invitation
DeleteInvitation_PendingOnly(p, caller, id) ==
    /\ Free(p)
    /\ LET c == [IdleCall EXCEPT !.op = "delete", !.id = id]
           u == [IdleCall EXCEPT !.op = "delete"]
       IN  IF ~IsAuthed(caller)
           THEN /\ Settle(p, Finish(u, Thrown(NoString,
                     "Unauthorized: You must be logged in to delete invitations")))
                /\ UNCHANGED invitations
           ELSE IF ~IsAdmin(caller)
           THEN /\ Settle(p, Finish(u, Thrown("Failed to delete invitation: ",
                     "Unauthorized: Only admins can delete invitations")))
                /\ UNCHANGED invitations
           ELSE /\ invitations' =
                     [i \in DOMAIN invitations \
                         { j \in {id} \cap DOMAIN invitations :
                              invitations[j].status = "pending" }
                        |-> invitations[i]]
                /\ Settle(p, Finish(c, Success))
    /\ UNCHANGED <<users, mailed, now, nextId, nextToken, acceptedOk, retired>>

\* a variant of DeleteInvitation that gets the document first and throws when
\* there is none
DeleteInvitation_MissingThrows(p, caller, id) ==
    /\ Free(p)
    /\ LET c == [IdleCall EXCEPT !.op = "delete", !.id = id]
           u == [IdleCall EXCEPT !.op = "delete"]
       IN  IF ~IsAuthed(caller)
           THEN /\ Settle(p, Finish(u, Thrown(NoString,
                     "Unauthorized: You must be logged in to delete invitations")))
                /\ UNCHANGED invitations
           ELSE IF ~IsAdmin(caller)
           THEN /\ Settle(p, Finish(u, Thrown("Failed to delete invitation: ",
                     "Unauthorized: Only admins can delete invitations")))
                /\ UNCHANGED invitations
           ELSE IF ~Exists(id)
           THEN /\ Settle(p, Finish(c, Thrown("Failed to delete invitation: ",
                                              "Invitation not found")))
                /\ UNCHANGED invitations
           ELSE /\ invitations' =
                     [i \in DOMAIN invitations \ {id} |-> invitations[i]]
                /\ Settle(p, Finish(c, Success))
    /\ UNCHANGED <<users, mailed, now, nextId, nextToken, acceptedOk, retired>>

\* the whole call: the auth and role checks, then
\* await db.collection('invitations').doc(invitationId).delete()
DeleteInvitation(p, caller, id) ==
    /\ Free(p)
    /\ LET c == [IdleCall EXCEPT !.op = "delete", !.id = id]
           u == [IdleCall EXCEPT !.op = "delete"]
       IN  IF ~IsAuthed(caller)
           THEN /\ Settle(p, Finish(u, Thrown(NoString,
                     "Unauthorized: You must be logged in to delete invitations")))
                /\ UNCHANGED invitations
           ELSE IF ~IsAdmin(caller)
           THEN /\ Settle(p, Finish(u, Thrown("Failed to delete invitation: ",
                     "Unauthorized: Only admins can delete invitations")))
                /\ UNCHANGED invitations
           ELSE /\ invitations' =
                     [i \in DOMAIN invitations \ {id} |-> invitations[i]]
                /\ Settle(p, Finish(c, Success))
    /\ UNCHANGED <<users, mailed, now, nextId, nextToken, acceptedOk, retired>>

\* ------------------------------------------------------- getInvitations

\* a variant of OrderByCreatedAtDesc that orders oldest first
OrderByCreatedAtAsc(store) ==
    { seq \in [1..Cardinality(DOMAIN store) -> DOMAIN store] :
        /\ \A j, k \in DOMAIN seq : j # k => seq[j] # seq[k]
        /\ \A j, k \in DOMAIN seq :
              j < k => store[seq[j]].createdAt <= store[seq[k]].createdAt }

\* collection('invitations').orderBy('createdAt', 'desc').get(): the orders
\* in which the snapshot can hold the ids, every document once, a later
\* createdAt first; documents of one createdAt come in the order of their
\* auto-ids, which is any order
OrderByCreatedAtDesc(store) ==
    { seq \in [1..Cardinality(DOMAIN store) -> DOMAIN store] :
        /\ \A j, k \in DOMAIN seq : j # k => seq[j] # seq[k]
        /\ \A j, k \in DOMAIN seq :
              j < k => store[seq[j]].createdAt >= store[seq[k]].createdAt }

\* the whole call: the auth and role checks, the query, and
\* invitationsSnapshot.forEach((doc) => invitations.push(doc.data()))
GetInvitations(p, caller) ==
    /\ Free(p)
    /\ LET c == [IdleCall EXCEPT !.op = "get"]
       IN  IF ~IsAuthed(caller)
           THEN Settle(p, Finish(c, Thrown(NoString,
                   "Unauthorized: You must be logged in to view invitations")))
           ELSE IF ~IsAdmin(caller)
           THEN Settle(p, Finish(c, Thrown("Failed to get invitations: ",
                   "Unauthorized: Only admins can view invitations")))
           ELSE \E seq \in OrderByCreatedAtDesc(invitations) :
                   Settle(p, Finish([c EXCEPT !.list =
                             [k \in DOMAIN seq |-> invitations[seq[k]]]], Listing))
    /\ UNCHANGED <<invitations, users, mailed, now, nextId, nextToken,
                   acceptedOk, retired>>

\* ----------------------------------------------------- verifyInvitation

TokenInputs == {EmptyToken} \cup Tokens
EmailInputs == {NoString} \cup Emails

\* a variant of VerifyMatches without the status filter
VerifyMatches_AnyStatus(token, email) ==
    { id \in DOMAIN invitations :
        /\ invitations[id].email = email
        /\ invitations[id].token = token }

\* where('email', '==', email).where('token', '==', token)
\*   .where('status', '==', 'pending')
VerifyMatches(token, email) ==
    { id \in DOMAIN invitations :
        /\ invitations[id].email = email
        /\ invitations[id].token = token
        /\ invitations[id].status = "pending" }

\* the result for the document docs[0] of a non-empty snapshot
VerifyDoc(doc, t) ==
    IF IsExpired(doc.expiresAt, t)
    THEN Invalid("Invitation has expired")
    ELSE Valid(doc)

\* the responses verifyInvitation can give now: the input check throws; else
\* the query (limit(1): any one of the matching documents), Timestamp.now()
\* and the expiry check, every throw caught and returned as valid: false
VerifyResponses(token, email) ==
    IF token = EmptyToken \/ email = NoString
    THEN {Thrown(NoString, "Invalid request: token and email are required")}
    ELSE IF VerifyMatches(token, email) = {}
    THEN {Invalid("Invalid or expired invitation")}
    ELSE {VerifyDoc(invitations[id], now) : id \in VerifyMatches(token, email)}

\* a variant of VerifyEffect that removes the matching documents that have
\* expired
VerifyEffect_Purging(token, email) ==
    [i \in DOMAIN invitations \
            { id \in VerifyMatches(token, email) :
                 IsExpired(invitations[id].expiresAt, now) } |-> invitations[i]]

\* the store after a verification: the handler only reads
VerifyEffect(token, email) == invitations

\* the whole call
VerifyInvitation(p, token, email) ==
    /\ Free(p)
    /\ \E r \in VerifyResponses(token, email) :
          Settle(p, Finish(IF token = EmptyToken \/ email = NoString
                           THEN [IdleCall EXCEPT !.op = "verify"]
                           ELSE [IdleCall EXCEPT !.op = "verify", !.token = token,
                                                 !.email = email], r))
    /\ invitations' = VerifyEffect(token, email)
    /\ UNCHANGED <<users, mailed, now, nextId, nextToken, acceptedOk, retired>>

\* ----------------------------------------------------- acceptInvitation

UserIdInputs == {NoString} \cup UserIds

\* a variant of AcceptRefusal that checks the expiry before the status
AcceptRefusal_ExpiryFirst(id, t) ==
    IF ~Exists(id) THEN "Invitation not found"
    ELSE IF IsExpired(invitations[id].expiresAt, t)
    THEN "Invitation has expired"
    ELSE IF invitations[id].status # "pending"
    THEN "Invitation has already been used"
    ELSE NoString

\* a variant of AcceptRefusal without the status check
AcceptRefusal_NoStatusCheck(id, t) ==
    IF ~Exists(id) THEN "Invitation not found"
    ELSE IF IsExpired(invitations[id].expiresAt, t)
    THEN "Invitation has expired"
    ELSE NoString

\* why the document that was read cannot be accepted ("" when it can)
AcceptRefusal(id, t) ==
    IF ~Exists(id) THEN "Invitation not found"
    ELSE IF invitations[id].status # "pending"
    THEN "Invitation has already been used"
    ELSE IF IsExpired(invitations[id].expiresAt, t)
    THEN "Invitation has expired"
    ELSE NoString

\* a variant of AcceptFields that does not write acceptedAt
AcceptFields_NoAcceptedAt(doc, userId, t) ==
    [doc EXCEPT !.status = "accepted", !.acceptedBy = userId]

\* invitationDoc.ref.update({status, acceptedAt, acceptedBy}): the other fields stay
AcceptFields(doc, userId, t) ==
    [doc EXCEPT !.status = "accepted", !.acceptedAt = t, !.acceptedBy = userId]

\* a variant of AcceptGet that accepts only for the user registered with the
\* invitation's email
AcceptGet_ForInvitedUser(p, id, userId) ==
    /\ Free(p)
    /\ LET c == [IdleCall EXCEPT !.op = "accept", !.id = id, !.userId = userId,
                                 !.late = id \in acceptedOk]
       IN  Settle(p,
             IF userId = NoString
             THEN Finish([IdleCall EXCEPT !.op = "accept"], Thrown(NoString,
                    "Invalid request: invitationId and userId are required"))
             ELSE IF AcceptRefusal(id, now) # NoString
             THEN Finish(c, Thrown("Failed to accept invitation: ",
                                   AcceptRefusal(id, now)))
             ELSE IF ~ \E u \in users :
                         u.uid = userId /\ u.email = invitations[id].email
             THEN Finish(c, Thrown("Failed to accept invitation: ",
                                   "Unauthorized: not the invited user"))
             ELSE [c EXCEPT !.pc = "accept_update"])
    /\ UNCHANGED <<invitations, users, mailed, now, nextId, nextToken,
                   acceptedOk, retired>>

\* the call arrives: the input check, the get of the document, the status
\* check, Timestamp.now() and the expiry check
AcceptGet(p, id, userId) ==
    /\ Free(p)
    /\ LET c == [IdleCall EXCEPT !.op = "accept", !.id = id, !.userId = userId,
                                 !.late = id \in acceptedOk]
       IN  Settle(p,
             IF userId = NoString
             THEN Finish([IdleCall EXCEPT !.op = "accept"], Thrown(NoString,
                    "Invalid request: invitationId and userId are required"))
             ELSE IF AcceptRefusal(id, now) # NoString
             THEN Finish(c, Thrown("Failed to accept invitation: ",
                                   AcceptRefusal(id, now)))
             ELSE [c EXCEPT !.pc = "accept_update"])
    /\ UNCHANGED <<invitations, users, mailed, now, nextId, nextToken,
                   acceptedOk, retired>>

\* a variant of AcceptUpdate that checks the status again at its write, as a
\* transaction would
AcceptUpdate_Rechecks(p) ==
    LET c == calls[p]
    IN  /\ At(p, "accept_update")
        /\ IF Exists(c.id) /\ invitations[c.id].status = "pending"
           THEN /\ invitations' = [invitations EXCEPT ![c.id] =
                     AcceptFields(@, c.userId, now)]
                /\ Settle(p, Finish(c, Success))
                /\ acceptedOk' = acceptedOk \cup {c.id}
           ELSE /\ Settle(p, Finish(c, Thrown("Failed to accept invitation: ",
                        IF Exists(c.id) THEN "Invitation has already been used"
                        ELSE "NOT_FOUND: No document to update")))
                /\ UNCHANGED <<invitations, acceptedOk>>
        /\ UNCHANGED <<users, mailed, now, nextId, nextToken, retired>>

\* await invitationDoc.ref.update({...}), then return { success: true };
\* Firestore rejects the update of a document that no longer exists
AcceptUpdate(p) ==
    LET c == calls[p]
    IN  /\ At(p, "accept_update")
        /\ IF Exists(c.id)
           THEN /\ invitations' = [invitations EXCEPT ![c.id] =
                     AcceptFields(@, c.userId, now)]
                /\ Settle(p, Finish(c, Success))
                /\ acceptedOk' = acceptedOk \cup {c.id}
           ELSE /\ Settle(p, Finish(c, Thrown("Failed to accept invitation: ",
                                              "NOT_FOUND: No document to update")))
                /\ UNCHANGED <<invitations, acceptedOk>>
        /\ UNCHANGED <<users, mailed, now, nextId, nextToken, retired>>

\* ------------------------------------------------------------- the clock

\* time passes: a second, or, between invocations (each ends within
\* seconds), the lifetime of an invitation
Tick ==
    /\ Ready
    /\ \/ /\ (now % InviteLifetimeMs) \div 1000 < MaxSecondTicks
          /\ now' = now + 1000
       \/ /\ now \div InviteLifetimeMs < MaxLifetimeJumps
          /\ \A p \in Procs : ~InFlight(p)
          /\ now' = now + InviteLifetimeMs
    /\ UNCHANGED <<invitations, users, mailed, nextId, nextToken, calls,
                   returned, acceptedOk, retired>>

\* the response of the call that has returned reaches its caller, and the
\* mail its recipient
Deliver ==
    /\ ~Ready
    /\ returned' = IdleCall
    /\ mailed' = NoMail
    /\ UNCHANGED <<invitations, users, now, nextId, nextToken, calls,
                   acceptedOk, retired>>

\* ------------------------------------------------------ specifications

\* one step of the invocation in slot p
CallStep(p) ==
    \/ \E caller \in Callers, emails \in BatchInputs, by \in InvitedByInputs :
          SendInvitations(p, caller, emails, by)
    \/ SendNextQueries(p)
    \/ \E delivered \in BOOLEAN : SendSetAndMail(p, delivered)
    \/ \E caller \in Callers, id \in Ids : ResendGet(p, caller, id)
    \/ \E delivered \in BOOLEAN : ResendUpdateAndMail(p, delivered)
    \/ \E caller \in Callers, id \in Ids : DeleteInvitation(p, caller, id)
    \/ \E caller \in Callers : GetInvitations(p, caller)
    \/ \E token \in TokenInputs, email \in EmailInputs :
          VerifyInvitation(p, token, email)
    \/ \E id \in Ids, userId \in UserIdInputs : AcceptGet(p, id, userId)
    \/ AcceptUpdate(p)

\* invocations interleave at their awaits
Next ==
    \/ Tick /\ UNCHANGED page
    \/ Deliver /\ UNCHANGED page
    \/ \E p \in Procs : CallStep(p) /\ UNCHANGED page

Spec == Init /\ [][Next]_vars

\* no other invocation is in flight while p's runs
Alone(p) == \A q \in Procs \ {p} : ~InFlight(q)

SerialNext ==
    \/ Tick /\ UNCHANGED page
    \/ Deliver /\ UNCHANGED page
    \/ \E p \in Procs : Alone(p) /\ CallStep(p) /\ UNCHANGED page

SerialSpec == Init /\ [][SerialNext]_vars

\* ------------------------------------------------- the registration page

\* useState<...>(null) of invitation
NoInvitation == [id |-> 0, email |-> NoString, role |-> NoString]
\* no acceptInvitation call has been made
NoAccept == [invitationId |-> 0, userId |-> NoString]
\* the uid of the account that register creates
NewUid == "uid123"

\* the useEffect of the page, verifyToken: without token or email in the URL
\* the error is set; else await verifyInvitation({ token, email }), and the
\* invitation, email and role are set from a valid result, the error from
\* any other
PageOpen(token, invitedEmail) ==
    /\ page.pc = "closed"
    /\ IF token = EmptyToken \/ invitedEmail = NoString
       THEN /\ page' = [page EXCEPT !.pc = "form",
                           !.error = "Registration requires a valid invitation link"]
            /\ UNCHANGED backend
       ELSE /\ \E p \in Procs : VerifyInvitation(p, token, invitedEmail)
            /\ page' = [page EXCEPT
                  !.pc = "form",
                  !.invitation =
                      IF returned'.res.kind = "valid"
                      THEN [id |-> returned'.res.id, email |-> returned'.res.email,
                            role |-> returned'.res.role]
                      ELSE NoInvitation,
                  !.email = IF returned'.res.kind = "valid"
                            THEN returned'.res.email ELSE NoString,
                  !.error = IF returned'.res.kind = "valid" THEN NoString
                            ELSE returned'.res.msg]

\* handleSubmit up to await register(...): the email field is the
\* invitation's (read-only) or, without invitation, what was typed; when a
\* field is empty or the passwords are refused the error is set
PageSubmit(typed, fieldsOk) ==
    /\ page.pc = "form"
    /\ LET email == IF page.invitation # NoInvitation THEN page.email ELSE typed
       IN  IF email = NoString \/ ~fieldsOk
           THEN page' = [page EXCEPT !.email = email, !.success = FALSE,
                                     !.error = "Please fill in all fields"]
           ELSE page' = [page EXCEPT !.pc = "registering", !.email = email,
                                     !.success = FALSE, !.error = NoString]
    /\ UNCHANGED backend

\* a variant of PageRegister that shows the failure of an acceptInvitation
\* call that is refused, instead of the success
PageRegister_ShowsAcceptFailure(created) ==
    /\ page.pc = "registering"
    /\ IF ~created
       THEN /\ page' = [page EXCEPT !.pc = "form", !.registered = "failed",
                           !.error = "An error occurred during registration"]
            /\ UNCHANGED backend
       ELSE IF page.invitation = NoInvitation
       THEN /\ page' = [page EXCEPT !.pc = "done", !.registered = "ok",
                           !.uid = NewUid, !.success = TRUE]
            /\ UNCHANGED backend
       ELSE \E p \in Procs :
               /\ AcceptGet(p, page.invitation.id, page.email)
               /\ page' = [page EXCEPT
                     !.registered = "ok", !.uid = NewUid,
                     !.accept = [invitationId |-> page.invitation.id,
                                 userId |-> page.email],
                     !.pc = IF returned'.op = "accept" THEN "done"
                            ELSE "accepting",
                     !.slot = IF returned'.op = "accept" THEN 0 ELSE p,
                     !.success = FALSE,
                     !.error = IF returned'.op = "accept" THEN returned'.res.msg
                               ELSE NoString]

\* await register(email, password, displayName, role) ends.  Rejected: the
\* outer catch sets the error.  Resolved: the account exists, and with an
\* invitation acceptInvitation({ invitationId: invitation.id, userId: email })
\* is called; without one the success is shown
PageRegister(created) ==
    /\ page.pc = "registering"
    /\ IF ~created
       THEN /\ page' = [page EXCEPT !.pc = "form", !.registered = "failed",
                           !.error = "An error occurred during registration"]
            /\ UNCHANGED backend
       ELSE IF page.invitation = NoInvitation
       THEN /\ page' = [page EXCEPT !.pc = "done", !.registered = "ok",
                           !.uid = NewUid, !.success = TRUE]
            /\ UNCHANGED backend
       ELSE \E p \in Procs :
               /\ AcceptGet(p, page.invitation.id, page.email)
               /\ page' = [page EXCEPT
                     !.registered = "ok", !.uid = NewUid,
                     !.accept = [invitationId |-> page.invitation.id,
                                 userId |-> page.email],
                     !.pc = IF returned'.op = "accept" THEN "done"
                            ELSE "accepting",
                     !.slot = IF returned'.op = "accept" THEN 0 ELSE p,
                     !.success = returned'.op = "accept"]

\* await acceptInvitation(...) ends: resolved, or rejected and caught
\* ("Continue anyway, as the user is registered"); the success is shown
PageAccepted ==
    /\ page.pc = "accepting"
    /\ AcceptUpdate(page.slot)
    /\ page' = [page EXCEPT !.pc = "done", !.slot = 0, !.success = TRUE]

\* a step of a call of another client that writes the store (an
\* administrator's send, resend or delete, another user's accept), one such
\* call at a time beside the page's own
OtherCall(p) ==
    /\ p # page.slot
    /\ \A q \in Procs \ {p, page.slot} : ~InFlight(q)
    /\ \/ \E emails \in BatchInputs, by \in InvitedByInputs :
             SendInvitations(p, ClaimAdmin, emails, by)
       \/ SendNextQueries(p)
       \/ \E delivered \in BOOLEAN : SendSetAndMail(p, delivered)
       \/ \E id \in Ids : ResendGet(p, ClaimAdmin, id)
       \/ \E delivered \in BOOLEAN : ResendUpdateAndMail(p, delivered)
       \/ \E id \in Ids : DeleteInvitation(p, ClaimAdmin, id)
       \/ \E id \in Ids, userId \in UserIds : AcceptGet(p, id, userId)
       \/ AcceptUpdate(p)
    /\ UNCHANGED page

\* the page of one visitor beside the calls of other clients
PageNext ==
    \/ Tick /\ UNCHANGED page
    \/ Deliver /\ UNCHANGED page
    \/ \E p \in Procs : OtherCall(p)
    \/ \E token \in TokenInputs, email \in EmailInputs : PageOpen(token, email)
    \/ \E typed \in EmailInputs, fieldsOk \in BOOLEAN : PageSubmit(typed, fieldsOk)
    \/ \E created \in BOOLEAN : PageRegister(created)
    \/ PageAccepted

PageSpec == Init /\ [][PageNext]_vars

\* =================================================================== claims

\* the documents a verification of (token, email) may succeed on: stored,
\* same email, same token, pending, and not past expiry to the second
LiveMatches(token, email) ==
    { id \in DOMAIN invitations :
        /\ invitations[id].email = email
        /\ invitations[id].token = token
        /\ invitations[id].status = "pending"
        /\ TsSeconds(now) <= TsSeconds(invitations[id].expiresAt) }

\* C1 as stated: verifyInvitation returns valid: true if and only if a stored
\* invitation has the given email and token, is pending, and now < expiresAt;
\* in every other case it returns valid: false.
C1_ValidIffBeforeExpiry ==
    returned.op = "verify" =>
        /\ returned.res.kind \in {"valid", "invalid"}
        /\ returned.res.kind = "valid" <=>
              \E id \in DOMAIN invitations :
                 /\ invitations[id].email = returned.email
                 /\ invitations[id].token = returned.token
                 /\ invitations[id].status = "pending"
                 /\ TsSeconds(now) < TsSeconds(invitations[id].expiresAt)

\* C1 amended: a verifyInvitation call with a non-empty token and email returns
\* valid: true if and only if a stored invitation has that email and that
\* token, is pending, and is not expired, i.e. NOT expiresAt.seconds <
\* now.seconds (it is still valid in the second of its expiry); otherwise it
\* returns valid: false.  An empty token or email makes the call throw.
C1_ValidIffNotExpired ==
    returned.op = "verify" =>
        IF returned.token = EmptyToken \/ returned.email = NoString
        THEN returned.res.kind = "error"
        ELSE /\ returned.res.kind \in {"valid", "invalid"}
             /\ returned.res.kind = "valid" <=>
                   LiveMatches(returned.token, returned.email) # {}
             /\ returned.res.kind = "valid" =>
                   returned.res.id \in LiveMatches(returned.token, returned.email)

\* a verification has succeeded in the very second the invitation expires
C1_Witness ==
    /\ returned.op = "verify"
    /\ returned.res.kind = "valid"
    /\ TsSeconds(invitations[returned.res.id].expiresAt) = TsSeconds(now)

\* C2: verifyInvitation never changes the store, whatever its outcome (an
\* expired pending invitation stays stored and pending), dispatches nothing,
\* and its response is determined by its inputs, the store and the clock, so
\* that two consecutive calls with the same inputs return the same result.
C2_VerifyChangesNothing ==
    /\ [][returned'.op = "verify" =>
            /\ invitations' = invitations
            /\ users' = users
            /\ mailed' = NoMail
            /\ <<nextId, nextToken>>' = <<nextId, nextToken>>]_vars
    /\ [](\A token \in TokenInputs, email \in EmailInputs :
            Cardinality(VerifyResponses(token, email)) = 1)

\* a verification has failed as expired, and the invitation is still stored
\* with status pending
C2_Witness ==
    /\ returned.op = "verify"
    /\ returned.res.msg = "Invitation has expired"
    /\ \E id \in DOMAIN invitations :
          /\ invitations[id].token = returned.token
          /\ invitations[id].email = returned.email
          /\ invitations[id].status = "pending"

\* C3 as stated: after one successful acceptInvitation on an id, every later
\* acceptInvitation call on that id fails with 'Invitation has already been
\* used' (and leaves acceptedBy and acceptedAt as the first call set them).
C3_LaterAcceptAlreadyUsed ==
    (returned.op = "accept" /\ returned.late) =>
        /\ returned.res.kind = "error"
        /\ returned.res.msg = "Invitation has already been used"

\* C3 amended: after one successful acceptInvitation on an id, every later
\* acceptInvitation call on that id (one that arrives with a userId after the
\* first has returned) fails: with 'Invitation has already been used' while
\* the record is stored, with 'Invitation not found' once it has been deleted.
\* It never reaches its update and changes no record, so acceptedBy and
\* acceptedAt stay as the first call set them.
C3_LaterAcceptFails ==
    /\ [](/\ (returned.op = "accept" /\ returned.late) =>
                /\ returned.res.kind = "error"
                /\ returned.res.msg =
                      IF Exists(returned.id)
                      THEN "Invitation has already been used"
                      ELSE "Invitation not found"
          /\ \A p \in Procs : ~calls[p].late
          /\ \A id \in acceptedOk : Exists(id) =>
                /\ invitations[id].status = "accepted"
                /\ invitations[id].acceptedBy # NoString
                /\ invitations[id].acceptedAt # NoTime)
    /\ [][(returned'.op = "accept" /\ returned'.late) =>
               invitations' = invitations]_vars

\* a second accept on an accepted, stored invitation has failed as already used,
\* by a user other than the one recorded
C3_Witness ==
    /\ returned.op = "accept"
    /\ returned.late
    /\ returned.res.msg = "Invitation has already been used"
    /\ Exists(returned.id)
    /\ invitations[returned.id].acceptedBy # returned.userId

\* C4: for a stored invitation exactly one token value makes verifyInvitation
\* succeed, the one stored on the record, and it does so exactly while the
\* record is pending and unexpired.  After a resendInvitation has written,
\* the token it replaced never verifies again, and the new one does.
C4_OnlyStoredTokenVerifies ==
    /\ \A id \in DOMAIN invitations : invitations[id].token \notin retired
    /\ \A id \in DOMAIN invitations, token \in Tokens :
          (\E r \in VerifyResponses(token, invitations[id].email) :
              r.kind = "valid" /\ r.id = id)
          <=> /\ token = invitations[id].token
              /\ invitations[id].status = "pending"
              /\ TsSeconds(now) <= TsSeconds(invitations[id].expiresAt)
    /\ \A token \in retired, email \in Emails :
          \A r \in VerifyResponses(token, email) : r.kind = "invalid"
    /\ (returned.op = "verify" /\ returned.res.kind = "valid") =>
          /\ returned.token \notin retired
          /\ returned.token = invitations[returned.res.id].token
    /\ (returned.op = "resend" /\ returned.res.kind = "success") =>
          (Exists(returned.id) => invitations[returned.id].token \notin retired)

\* after a resend, a verification with the replaced token has failed while
\* the invitation is pending and unexpired under its new token
C4_Witness ==
    /\ returned.op = "verify"
    /\ returned.res.kind = "invalid"
    /\ returned.token \in retired
    /\ \E id \in DOMAIN invitations :
          /\ invitations[id].email = returned.email
          /\ invitations[id].status = "pending"
          /\ invitations[id].updatedAt # NoTime
          /\ ~IsExpired(invitations[id].expiresAt, now)
          /\ VerifyResponses(invitations[id].token, returned.email)
                = {Valid(invitations[id])}

\* how many times email occurs in the list
Occurrences(list, email) ==
    Cardinality({ k \in 1..Len(list) : list[k] = email })

\* C5: when calls run one at a time, at most one invitation with status
\* pending is stored per email; and when a sendInvitations batch names the
\* same email more than once, at most one of the occurrences is reported as a
\* success and exactly one pending record is written for it.
C5_OnePendingPerEmail ==
    /\ \A email \in Emails :
          Cardinality({ id \in DOMAIN invitations :
                          /\ invitations[id].email = email
                          /\ invitations[id].status = "pending" }) <= 1
    /\ (returned.op = "send" /\ returned.res.kind = "results") =>
          \A email \in Emails :
             /\ Occurrences(returned.success, email) <= 1
             /\ Occurrences(returned.success, email) = 1 =>
                   \E id \in DOMAIN invitations :
                      /\ invitations[id].email = email
                      /\ invitations[id].status = "pending"
                      /\ invitations[id].createdAt # NoTime
             /\ Occurrences(returned.success, email)
                   + Cardinality({ k \in 1..Len(returned.failed) :
                                     returned.failed[k].email = email })
                = Occurrences(returned.emails, email)

\* a batch that named one email twice has returned: the first occurrence a
\* success, the second refused as already sent
C5_Witness ==
    /\ returned.op = "send"
    /\ returned.res.kind = "results"
    /\ Len(returned.emails) = 2
    /\ returned.emails[1] = returned.emails[2]
    /\ returned.success = <<returned.emails[1]>>
    /\ Len(returned.failed) = 1
    /\ returned.failed[1].reason = "Invitation already sent"
    /\ \A p \in Procs : ~InFlight(p)

\* C6: under every interleaving of calls, the status of a stored invitation
\* only ever moves from pending to accepted, never back and never to another
\* value, and its id and email never change.
C6_StatusOnlyForward ==
    /\ [](\A id \in DOMAIN invitations :
            /\ invitations[id].status \in {"pending", "accepted"}
            /\ invitations[id].id = id
            /\ id \in acceptedOk => invitations[id].status = "accepted")
    /\ [][\A id \in DOMAIN invitations :
            id \in DOMAIN invitations' =>
               /\ \/ invitations'[id].status = invitations[id].status
                  \/ /\ invitations[id].status = "pending"
                     /\ invitations'[id].status = "accepted"
               /\ invitations'[id].id = invitations[id].id
               /\ invitations'[id].email = invitations[id].email]_vars

\* a resendInvitation that read the invitation while it was pending has
\* written its token and returned after the invitation was accepted
C6_Witness ==
    /\ returned.op = "resend"
    /\ returned.res.kind = "success"
    /\ Exists(returned.id)
    /\ invitations[returned.id].status = "accepted"
    /\ invitations[returned.id].token = returned.token

\* C7: once acceptInvitation has succeeded on an invitation, no later
\* verifyInvitation call returns valid: true for it, whatever token and email
\* it is given, also when a resendInvitation was in flight at the accept and
\* wrote its new token afterwards.
C7_NoValidAfterAccept ==
    /\ (returned.op = "verify" /\ returned.res.kind = "valid") =>
          returned.res.id \notin acceptedOk
    /\ \A token \in TokenInputs, email \in EmailInputs :
          \A r \in VerifyResponses(token, email) :
             r.kind = "valid" => r.id \notin acceptedOk

\* a verification with the token a resend wrote after the accept, before its
\* expiry, has failed
C7_Witness ==
    /\ returned.op = "verify"
    /\ returned.res.kind = "invalid"
    /\ \E id \in acceptedOk :
          /\ Exists(id)
          /\ invitations[id].token = returned.token
          /\ invitations[id].email = returned.email
          /\ invitations[id].updatedAt > invitations[id].acceptedAt
          /\ ~IsExpired(invitations[id].expiresAt, now)

\* C8: a successful acceptInvitation sets status to accepted, acceptedAt to
\* the time of the write and acceptedBy to the given user id, and leaves
\* email, token, expiresAt, createdAt and createdBy (and every other record)
\* as they were; acceptedBy and acceptedAt are present on a record exactly
\* when its status is accepted; and the status of a stored record, pending
\* when the record is created, changes in no step but the update of an
\* acceptInvitation.
C8_AcceptWritesOnlyItsFields ==
    /\ [](\A id \in DOMAIN invitations :
            /\ invitations[id].status = "accepted"
                  <=> invitations[id].acceptedBy # NoString
            /\ invitations[id].status = "accepted"
                  <=> invitations[id].acceptedAt # NoTime)
    /\ [][(returned'.op = "accept" /\ returned'.res.kind = "success") =>
            LET id == returned'.id
            IN  /\ id \in DOMAIN invitations
                /\ DOMAIN invitations' = DOMAIN invitations
                /\ invitations'[id].status = "accepted"
                /\ invitations'[id].acceptedAt = now
                /\ invitations'[id].acceptedBy = returned'.userId
                /\ invitations'[id].email = invitations[id].email
                /\ invitations'[id].token = invitations[id].token
                /\ invitations'[id].expiresAt = invitations[id].expiresAt
                /\ invitations'[id].createdAt = invitations[id].createdAt
                /\ invitations'[id].createdBy = invitations[id].createdBy
                /\ invitations'[id].updatedAt = invitations[id].updatedAt
                /\ \A other \in DOMAIN invitations \ {id} :
                      invitations'[other] = invitations[other]]_vars
    /\ [][\A id \in DOMAIN invitations' :
            IF id \in DOMAIN invitations
            THEN invitations'[id].status # invitations[id].status =>
                    /\ returned'.op = "accept"
                    /\ returned'.res.kind = "success"
                    /\ returned'.id = id
            ELSE invitations'[id].status = "pending"]_vars

\* an accept has succeeded on an invitation a resend had rewritten, a second
\* after the invitation was created
C8_Witness ==
    /\ returned.op = "accept"
    /\ returned.res.kind = "success"
    /\ invitations[returned.id].acceptedBy = returned.userId
    /\ invitations[returned.id].acceptedAt = now
    /\ invitations[returned.id].acceptedAt > invitations[returned.id].createdAt
    /\ invitations[returned.id].updatedAt # NoTime

\* C9: an acceptInvitation call (given a user id) fails with 'Invitation not
\* found' when the id is not stored, with 'Invitation has already been used'
\* when the record is not pending, with 'Invitation has expired' when it is
\* pending but expiresAt < now, the checks made in that order; it goes on to
\* its update in no other case; and a failed call leaves the store unchanged.
C9_AcceptRefusals ==
    /\ [](LET msg == returned.res.msg
              id == returned.id
          IN  (/\ returned.op = "accept"
               /\ returned.userId # NoString
               /\ returned.res.kind = "error"
               /\ msg # "NOT_FOUND: No document to update") =>
                 /\ returned.res.prefix = "Failed to accept invitation: "
                 /\ msg = IF id \notin DOMAIN invitations
                          THEN "Invitation not found"
                          ELSE IF invitations[id].status # "pending"
                          THEN "Invitation has already been used"
                          ELSE "Invitation has expired"
                 /\ msg = "Invitation has expired" =>
                       TsSeconds(invitations[id].expiresAt) < TsSeconds(now))
    /\ [][\A p \in Procs :
            (calls[p].pc = "idle" /\ calls'[p].pc = "accept_update") =>
               LET id == calls'[p].id
               IN  /\ id \in DOMAIN invitations
                   /\ invitations[id].status = "pending"
                   /\ TsSeconds(invitations[id].expiresAt) >= TsSeconds(now)]_vars
    /\ [][(returned'.op = "accept" /\ returned'.res.kind = "error") =>
            /\ invitations' = invitations
            /\ users' = users
            /\ mailed' = NoMail]_vars

\* an accept on an invitation that is both accepted and past its expiry has
\* failed as already used
C9_Witness ==
    /\ returned.op = "accept"
    /\ returned.res.msg = "Invitation has already been used"
    /\ TsSeconds(invitations[returned.id].expiresAt) < TsSeconds(now)

\* C10: a resendInvitation call by an administrator fails with 'Invitation
\* not found' when the id is not stored and with 'Cannot resend an invitation
\* that has already been accepted' when the record is not pending; it goes on
\* to its update in no other case; and in both failures the stored token and
\* expiresAt are unchanged, no token is generated and no email is dispatched.
C10_ResendRefusals ==
    /\ [](LET msg == returned.res.msg
              id == returned.id
          IN  (/\ returned.op = "resend"
               /\ id # 0
               /\ returned.res.kind = "error"
               /\ msg \notin {"NOT_FOUND: No document to update",
                              "sendMail rejected"}) =>
                 /\ returned.res.prefix = "Failed to resend invitation: "
                 /\ msg = IF id \notin DOMAIN invitations
                          THEN "Invitation not found"
                          ELSE "Cannot resend an invitation that has already been accepted"
                 /\ id \in DOMAIN invitations =>
                       invitations[id].status # "pending")
    /\ [][\A p \in Procs :
            (calls[p].pc = "idle" /\ calls'[p].pc = "resend_update") =>
               /\ calls'[p].id \in DOMAIN invitations
               /\ invitations[calls'[p].id].status = "pending"]_vars
    /\ [][(/\ returned'.op = "resend"
           /\ returned'.res.msg \in
                 {"Invitation not found",
                  "Cannot resend an invitation that has already been accepted"}) =>
            /\ invitations' = invitations
            /\ nextToken' = nextToken
            /\ retired' = retired
            /\ mailed' = NoMail]_vars

\* a resend of an accepted invitation has been refused
C10_Witness ==
    /\ returned.op = "resend"
    /\ returned.res.msg =
          "Cannot resend an invitation that has already been accepted"
    /\ invitations[returned.id].status = "accepted"
    /\ mailed = NoMail

\* how many entries of the failed list are for email
FailedOccurrences(list, email) ==
    Cardinality({ k \in 1..Len(list) : list[k].email = email })

\* C11: a sendInvitations call by an administrator with a non-empty list
\* never aborts on the failure of one email: it returns the two result lists,
\* every element of the input is in exactly one of them (as often as it is in
\* the input), so |success| + |failed| is the length of the input; and while
\* the call runs, the emails before the current one are all accounted for.
C11_BatchNeverAborts ==
    /\ (returned.op = "send" /\ returned.emails # <<>>) =>
          /\ returned.res.kind = "results"
          /\ Len(returned.success) + Len(returned.failed) = Len(returned.emails)
          /\ \A email \in Emails :
                Occurrences(returned.success, email)
                   + FailedOccurrences(returned.failed, email)
                = Occurrences(returned.emails, email)
    /\ \A p \in Procs :
          calls[p].op = "send" =>
             /\ calls[p].i \in 1..Len(calls[p].emails)
             /\ Len(calls[p].success) + Len(calls[p].failed) = calls[p].i - 1

\* a batch has returned whose first email failed (an account exists) and whose
\* second email succeeded
C11_Witness ==
    /\ returned.op = "send"
    /\ returned.res.kind = "results"
    /\ Len(returned.emails) = 2
    /\ Len(returned.failed) = 1
    /\ returned.failed[1].email = returned.emails[1]
    /\ returned.success = <<returned.emails[2]>>

\* the slots whose sendInvitations call takes the step
SendStepSlots ==
    { p \in Procs : calls'[p] # calls[p]
                    /\ (calls[p].op = "send" \/ calls'[p].op = "send") }

\* the sendInvitations call that takes the step, as it is before the step (a
\* call that arrives in the step has no results yet) and after it
SendBefore ==
    IF \E p \in SendStepSlots : calls[p].op = "send"
    THEN calls[CHOOSE p \in SendStepSlots : calls[p].op = "send"]
    ELSE IdleCall
SendAfter ==
    IF returned'.op = "send" THEN returned'
    ELSE IF SendStepSlots # {} THEN calls'[CHOOSE p \in SendStepSlots : TRUE]
    ELSE IdleCall

\* C12: in sendInvitations an email is recorded in failed with reason 'User
\* already exists' exactly when an account with that email exists, and with
\* 'Invitation already sent' exactly when no account but a pending invitation
\* for it exists; in the step that records it no invitation record is
\* written, no token is generated and no email is dispatched, and the call
\* goes on to its write for an email only when neither is the case.
C12_RejectedEmailWritesNothing ==
    /\ [][LET before == SendBefore
              after == SendAfter
              entry == after.failed[Len(after.failed)]
          IN  (/\ Len(after.failed) = Len(before.failed) + 1
               /\ entry.reason \in {"User already exists",
                                    "Invitation already sent"}) =>
                 /\ invitations' = invitations
                 /\ nextToken' = nextToken
                 /\ nextId' = nextId
                 /\ mailed' = NoMail
                 /\ after.success = before.success
                 /\ entry.reason = "User already exists" <=>
                       \E u \in users : u.email = entry.email
                 /\ entry.reason = "Invitation already sent" =>
                       \E id \in DOMAIN invitations :
                          /\ invitations[id].email = entry.email
                          /\ invitations[id].status = "pending"]_vars
    /\ [][\A p \in Procs :
            (calls'[p].pc = "send_set" /\ calls[p].pc # "send_set") =>
               LET email == calls'[p].emails[calls'[p].i]
               IN  /\ ~ \E u \in users : u.email = email
                   /\ ~ \E id \in DOMAIN invitations :
                          /\ invitations[id].email = email
                          /\ invitations[id].status = "pending"
                   /\ calls'[p].token = nextToken
                   /\ calls'[p].failed = SendBefore.failed]_vars

\* a batch has returned that refused one email because of an account and the
\* other because of a pending invitation, which is still the only record
C12_Witness ==
    /\ returned.op = "send"
    /\ Len(returned.failed) = 2
    /\ {returned.failed[1].reason, returned.failed[2].reason}
          = {"User already exists", "Invitation already sent"}
    /\ returned.success = <<>>
    /\ Cardinality(DOMAIN invitations) = 1

\* C13: when transporter.sendMail rejects, the failure is surfaced and the
\* write before it stays.  In sendInvitations the email is pushed to failed,
\* not to success, and its new pending record is in the store; in
\* resendInvitation the call returns an error while the new token and
\* expiresAt are stored, so that the token they replaced no longer verifies.
C13_DispatchFailureKeepsWrite ==
    /\ [][LET before == SendBefore
              after == SendAfter
              entry == after.failed[Len(after.failed)]
          IN  (/\ Len(after.failed) = Len(before.failed) + 1
               /\ entry.reason = "sendMail rejected") =>
                 /\ after.success = before.success
                 /\ mailed' = NoMail
                 /\ before.id \notin DOMAIN invitations
                 /\ before.id \in DOMAIN invitations'
                 /\ invitations'[before.id].email = entry.email
                 /\ invitations'[before.id].status = "pending"
                 /\ invitations'[before.id].token = before.token
                 /\ invitations'[before.id].expiresAt = before.exp]_vars
    /\ [][\A p \in Procs :
            (/\ calls[p].pc = "resend_update"
             /\ calls'[p].pc = "idle"
             /\ returned'.res.msg = "sendMail rejected") =>
               LET id == calls[p].id
               IN  /\ returned'.res.kind = "error"
                   /\ returned'.res.prefix = "Failed to resend invitation: "
                   /\ mailed' = NoMail
                   /\ id \in DOMAIN invitations'
                   /\ invitations'[id].token = calls[p].token
                   /\ invitations'[id].expiresAt = calls[p].exp
                   /\ invitations'[id].token # invitations[id].token
                   /\ \A token \in Tokens, email \in Emails :
                         token = invitations[id].token =>
                            \A r \in VerifyResponses(token, email)' :
                               r.kind = "invalid"]_vars

\* a resend whose mail was rejected has returned its error, and the token it
\* generated is the stored one of the pending invitation
C13_Witness ==
    /\ returned.op = "resend"
    /\ returned.res.kind = "error"
    /\ returned.res.msg = "sendMail rejected"
    /\ invitations[returned.id].token = returned.token
    /\ invitations[returned.id].status = "pending"
    /\ retired # {}

\* the messages of the auth check and of the role check of the four
\* admin-only handlers
UnauthorizedMessages ==
    { "Unauthorized: You must be logged in to send invitations",
      "Unauthorized: Only admins can send invitations",
      "Unauthorized: You must be logged in to resend invitations",
      "Unauthorized: Only admins can resend invitations",
      "Unauthorized: You must be logged in to delete invitations",
      "Unauthorized: Only admins can delete invitations",
      "Unauthorized: You must be logged in to view invitations",
      "Unauthorized: Only admins can view invitations" }

\* C14: for sendInvitations, resendInvitation, deleteInvitation and
\* getInvitations: when the caller is unauthenticated, or has neither the
\* claim role = 'admin' nor a document in 'users' with role = 'admin', the
\* call fails as Unauthorized in the step it arrives in, and that step reads,
\* writes and deletes no invitation, generates no token and dispatches no
\* email; every other caller, also one whose role is only in 'users', is not
\* refused as Unauthorized.
C14_AdminOnly ==
    /\ [][\A p \in Procs, caller \in Callers :
            LET denied ==
                   \/ caller.uid = NoString
                   \/ /\ caller.role # "admin"
                      /\ ~ \E u \in users : u.uid = caller.uid /\ u.role = "admin"
                op == IF returned'.pc = "done" THEN returned'.op
                      ELSE calls'[p].op
                arrives ==
                   /\ Free(p)
                   /\ CASE op = "send" ->
                             \E emails \in BatchInputs, by \in InvitedByInputs :
                                SendInvitations(p, caller, emails, by)
                        [] op = "resend" ->
                             \E id \in Ids : ResendGet(p, caller, id)
                        [] op = "delete" ->
                             \E id \in Ids : DeleteInvitation(p, caller, id)
                        [] op = "get" -> GetInvitations(p, caller)
                        [] OTHER -> FALSE
            IN  arrives =>
                   IF denied
                   THEN /\ returned'.res.kind = "error"
                        /\ returned'.res.msg \in UnauthorizedMessages
                   ELSE returned'.res.msg \notin UnauthorizedMessages]_vars
    /\ [][returned'.res.msg \in UnauthorizedMessages =>
            /\ returned'.op \in {"send", "resend", "delete", "get"}
            /\ invitations' = invitations
            /\ calls' = calls
            /\ mailed' = NoMail
            /\ <<nextId, nextToken, retired>>' = <<nextId, nextToken, retired>>
            /\ returned'.list = <<>>
            /\ returned'.success = <<>>]_vars

\* a caller who is not an administrator has been refused the deletion of a
\* stored invitation, which is still there
C14_Witness ==
    /\ returned.op = "delete"
    /\ returned.res.msg = "Unauthorized: Only admins can delete invitations"
    /\ DOMAIN invitations # {}

\* the messages of the not-found, invalid-state and expired failures
StaleMessages ==
    { "Invitation not found",
      "Cannot resend an invitation that has already been accepted",
      "Invitation has already been used",
      "Invitation has expired" }

\* C15: every authorization failure is reported in an error class distinct
\* from the class of the not-found, invalid-state and expired failures, so
\* that the caller can tell them apart from the error value alone.
C15_UnauthorizedHasOwnClass ==
    returned.res.msg \in UnauthorizedMessages =>
        \A msg \in StaleMessages :
           ErrorClass(returned.res) # ErrorClass(Thrown(returned.res.prefix, msg))

\* the token has been generated, is on no stored invitation and is held by no
\* call that has yet to write it
Dormant(token) ==
    /\ token < nextToken
    /\ \A id \in DOMAIN invitations : invitations[id].token # token
    /\ \A p \in Procs :
          calls[p].pc \in {"send_set", "resend_update"} => calls[p].token # token

\* C16: a deleteInvitation by an administrator removes the record with the
\* given id, pending or accepted, and changes no other record; the token of
\* the removed record is then on no record and in no call, a token in that
\* condition stays in it, and verifyInvitation with such a token returns
\* valid: false for every email: after the delete no verification with the
\* invitation's token and email succeeds.
C16_DeleteIsUnconditional ==
    /\ [][(returned'.op = "delete" /\ returned'.res.kind = "success") =>
            LET id == returned'.id
            IN  /\ invitations' =
                      [i \in DOMAIN invitations \ {id} |-> invitations[i]]
                /\ id \in DOMAIN invitations =>
                      \A token \in Tokens :
                         token = invitations[id].token => Dormant(token)']_vars
    /\ [][\A token \in Tokens : Dormant(token) => Dormant(token)']_vars
    /\ [](\A token \in Tokens, email \in Emails :
            Dormant(token) =>
               \A r \in VerifyResponses(token, email) : r.kind = "invalid")

\* an accepted invitation has been deleted while another record stays stored
C16_Witness ==
    /\ returned.op = "delete"
    /\ returned.res.kind = "success"
    /\ returned.id \in acceptedOk
    /\ returned.id \notin DOMAIN invitations
    /\ DOMAIN invitations # {}

\* C17: getInvitations called by an administrator returns every invitation
\* in the store exactly once, as it is stored, a later createdAt before an
\* earlier one, and changes neither the store nor anything else.
C17_ListingNewestFirst ==
    /\ []((returned.op = "get" /\ returned.res.kind = "list") =>
            LET list == returned.list
            IN  /\ Len(list) = Cardinality(DOMAIN invitations)
                /\ { list[k].id : k \in DOMAIN list } = DOMAIN invitations
                /\ \A k \in DOMAIN list : list[k] = invitations[list[k].id]
                /\ \A j, k \in DOMAIN list :
                      j < k => list[j].createdAt >= list[k].createdAt)
    /\ [][returned'.op = "get" =>
            /\ invitations' = invitations
            /\ users' = users
            /\ calls' = calls
            /\ mailed' = NoMail
            /\ <<nextId, nextToken>>' = <<nextId, nextToken>>]_vars

\* a listing of two invitations created at different times has been returned,
\* the later one first
C17_Witness ==
    /\ returned.op = "get"
    /\ Len(returned.list) = 2
    /\ returned.list[1].createdAt > returned.list[2].createdAt
    /\ returned.list[1].id > returned.list[2].id

\* the time of the last write of expiresAt on the document: updatedAt once a
\* resend has written, createdAt before
ExpiryWrittenAt(doc) ==
    IF doc.updatedAt # NoTime THEN doc.updatedAt ELSE doc.createdAt

\* C18 as stated: for every invitation created, expiresAt equals createdAt
\* plus exactly 7 days, and after a resend expiresAt equals the time of the
\* resend plus 7 days.
C18_ExpiryExactlySevenDaysAfterWrite ==
    \A id \in DOMAIN invitations :
       invitations[id].expiresAt
          = ExpiryWrittenAt(invitations[id]) + InviteLifetimeMs

\* C18 amended: expiresAt is the handler's Date.now(), read before the write,
\* plus exactly 7 days, in sendInvitations and in resendInvitation alike;
\* createdAt and updatedAt are the server's time of the later write, so
\* expiresAt is at most 7 days after the createdAt (or, once resent, the
\* updatedAt) of its record, and less when the clock has moved in between.
\* A resend whose Date.now() is later than the last write of the record's
\* expiresAt stores an expiresAt strictly later than the one it replaces.
C18_ExpirySevenDaysAfterDateNow ==
    /\ [](\A id \in DOMAIN invitations :
            invitations[id].expiresAt
               <= ExpiryWrittenAt(invitations[id]) + InviteLifetimeMs)
    /\ [][\A p \in Procs :
            /\ (/\ calls'[p].pc \in {"send_set", "resend_update"}
                /\ calls'[p].pc # calls[p].pc) =>
                  calls'[p].exp = now + InviteLifetimeMs
            /\ (calls[p].pc = "send_set" /\ calls'[p] # calls[p]) =>
                  /\ invitations'[calls[p].id].expiresAt = calls[p].exp
                  /\ invitations'[calls[p].id].createdAt = now
            /\ (/\ calls[p].pc = "resend_update"
                /\ calls'[p] # calls[p]
                /\ calls[p].id \in DOMAIN invitations) =>
                  LET old == invitations[calls[p].id]
                      new == invitations'[calls[p].id]
                  IN  /\ new.expiresAt = calls[p].exp
                      /\ new.updatedAt = now
                      /\ new.createdAt = old.createdAt
                      /\ calls[p].exp - InviteLifetimeMs > ExpiryWrittenAt(old)
                            => new.expiresAt > old.expiresAt]_vars

\* an invitation has been created whose expiresAt is less than 7 days after
\* its createdAt: the clock moved between Date.now() and the write
C18_Witness ==
    /\ returned.op = "send"
    /\ returned.success # <<>>
    /\ \E id \in DOMAIN invitations :
          /\ invitations[id].updatedAt = NoTime
          /\ invitations[id].expiresAt
                < invitations[id].createdAt + InviteLifetimeMs
          /\ invitations[id].expiresAt + 1000
                = invitations[id].createdAt + InviteLifetimeMs

\* C19: every invitation record persisted by sendInvitations carries a role
\* that is 'athlete' or 'supporter', and a successful verifyInvitation
\* returns that stored role, 'supporter' only when the record has none.
C19_StoredRoleIsAthleteOrSupporter ==
    /\ \A id \in DOMAIN invitations :
          invitations[id].role \in {"athlete", "supporter"}
    /\ (returned.op = "verify" /\ returned.res.kind = "valid") =>
          returned.res.role =
             IF invitations[returned.res.id].role # NoString
             THEN invitations[returned.res.id].role
             ELSE "supporter"

\* C20: in the registration flow acceptInvitation is called only after
\* register has succeeded, never before and never when it failed, with the id
\* that the preceding successful verifyInvitation returned and with the id of
\* the newly created user as userId.
C20_AcceptWithNewUserId ==
    page.accept # NoAccept =>
        /\ page.registered = "ok"
        /\ page.invitation # NoInvitation
        /\ page.accept.invitationId = page.invitation.id
        /\ page.accept.userId = page.uid

\* C21: two concurrent sendInvitations calls that name the same email, for
\* which no account and no pending invitation exists, can both pass the
\* pending check before either writes; the write is not conditional on the
\* check still holding: each call at its write stores its record under its own
\* id with its own token, also when a pending invitation for the email has
\* been stored since its check, and with the mail delivered pushes the email
\* to success; a success list never loses an entry; stored records differ in
\* id and token.
C21_ConcurrentSendsBothWrite ==
    /\ [][\A p \in Procs :
            (calls[p].pc = "send_set" /\ calls'[p] # calls[p]) =>
               LET c == calls[p]
                   email == c.emails[c.i]
                   after == IF calls'[p].pc = "idle" THEN returned' ELSE calls'[p]
               IN  /\ c.id \notin DOMAIN invitations
                   /\ DOMAIN invitations' = DOMAIN invitations \cup {c.id}
                   /\ invitations'[c.id].email = email
                   /\ invitations'[c.id].token = c.token
                   /\ invitations'[c.id].status = "pending"
                   /\ \A id \in DOMAIN invitations :
                         invitations'[id] = invitations[id]
                   /\ mailed' # NoMail =>
                         /\ mailed'.to = email
                         /\ mailed'.token = c.token
                         /\ after.success = Append(c.success, email)
                         /\ after.failed = c.failed]_vars
    /\ [][\A p \in Procs :
            (calls[p].op = "send" /\ calls'[p] # calls[p]) =>
               LET after == IF calls'[p].pc = "idle" THEN returned' ELSE calls'[p]
               IN  /\ after.op = "send"
                   /\ Len(after.success) >= Len(calls[p].success)
                   /\ SubSeq(after.success, 1, Len(calls[p].success))
                         = calls[p].success]_vars
    /\ [](\A id, other \in DOMAIN invitations :
            id # other =>
               /\ invitations[id].id # invitations[other].id
               /\ invitations[id].token # invitations[other].token)

\* two calls that named the same email have both written: one has returned
\* with the email in success, the other holds it in its success list, and two
\* pending invitations with different ids and tokens are stored for the email
C21_Witness ==
    /\ returned.op = "send"
    /\ returned.res.kind = "results"
    /\ returned.emails = <<"a@swim.org">>
    /\ returned.success = <<"a@swim.org">>
    /\ \E p \in Procs :
          /\ calls[p].op = "send"
          /\ calls[p].success = <<"a@swim.org">>
    /\ \E id, other \in PendingFor("a@swim.org") :
          /\ id # other
          /\ invitations[id].token # invitations[other].token
    /\ ~UserExists("a@swim.org")

C23_DeleteOfMissingIdSucceeds ==
    /\ [][returned'.op = "delete" =>
            \A p \in Procs, id \in Ids :
               (\/ DeleteInvitation(p, ClaimAdmin, id)
                \/ DeleteInvitation(p, ProfileAdmin, id)) =>
                  /\ returned'.res = Success
                  /\ returned'.id = id
                  /\ id \notin DOMAIN invitations'
                  /\ id \notin DOMAIN invitations =>
                        /\ invitations' = invitations
                        /\ calls' = calls
                        /\ mailed' = NoMail
                        /\ <<users, nextId, nextToken, acceptedOk, retired>>'
                              = <<users, nextId, nextToken, acceptedOk, retired>>]_vars
    /\ [][(returned'.op = "delete" /\ returned'.res.kind = "error") =>
            returned'.res.msg \in UnauthorizedMessages]_vars

\* an administrator has deleted an id that was never created, and has been
\* returned success while the stored invitation is still there
C23_Witness ==
    /\ returned.op = "delete"
    /\ returned.res.kind = "success"
    /\ returned.id >= nextId
    /\ DOMAIN invitations # {}

\* the values of process.env.NODE_ENV of a deployment
NodeEnvs == {"production", "development"}

\* baseUrl of sendInvitations
SendBaseUrl(env) ==
    IF env = "production" THEN "https://digbydolphins.com"
    ELSE "http://localhost:3334"

\* baseUrl of resendInvitation
ResendBaseUrl(env) ==
    IF env = "production" THEN "https://digbydolphins.com"
    ELSE "http://localhost:3333"

\* encodeURIComponent of an address: '@' becomes '%40', letters and '.' stay
EncodeURIComponent(email) ==
    CASE email = "a@swim.org" -> "a%40swim.org"
      [] email = "m@swim.org" -> "m%40swim.org"
      [] email = "admin1@swim.org" -> "admin1%40swim.org"
      [] OTHER -> email

\* `${baseUrl}/register?token=${token}&email=${encodeURIComponent(email)}`
InvitationLink(baseUrl, token, email) ==
    [base |-> baseUrl, path |-> "/register", token |-> token,
     email |-> EncodeURIComponent(email)]

\* the link in the message, built by the handler that dispatched it
MailLink(mail, env) ==
    InvitationLink(IF mail.kind = "resent" THEN ResendBaseUrl(env)
                   ELSE SendBaseUrl(env), mail.token, mail.to)

\* C24: for a given environment setting, the link dispatched by
\* resendInvitation has the base URL and the form of the link dispatched by
\* sendInvitations for the same invitation, <baseUrl>/register?token=<token>
\* &email=<url-encoded-email>, and differs from it only in the token.
C24_ResentLinkHasSameBaseUrl ==
    \A env \in NodeEnvs :
       mailed.kind = "resent" =>
          /\ MailLink(mailed, env).base = SendBaseUrl(env)
          /\ MailLink(mailed, env)
                = [MailLink(Mail(mailed.to, EmptyToken, "invitation"), env)
                      EXCEPT !.token = mailed.token]

\* the stored invitation is pending and not expired
Acceptable(id) ==
    /\ Exists(id)
    /\ invitations[id].status = "pending"
    /\ ~IsExpired(invitations[id].expiresAt, now)

\* C25: acceptInvitation succeeds for any caller who supplies the id of a
\* pending unexpired invitation and a non-empty userId.  The handler reads
\* neither request.auth nor a token: whenever such an invitation is stored,
\* the call with its id and any userId can arrive and goes on to its update;
\* a call that is refused on arrival was given no userId, or an id that is
\* not stored, not pending or expired; and the update of a record that is
\* still stored succeeds and records the userId as given, whatever the
\* invitation's email.
C25_AcceptNeedsOnlyIdAndUserId ==
    /\ [](\A p \in Procs, id \in Ids, userId \in UserIds :
            (Free(p) /\ Acceptable(id)) =>
               ENABLED (/\ AcceptGet(p, id, userId)
                        /\ calls'[p].pc = "accept_update"
                        /\ calls'[p].userId = userId))
    /\ [][(/\ returned'.op = "accept"
           /\ calls' = calls
           /\ returned'.userId # NoString) => ~Acceptable(returned'.id)]_vars
    /\ [][\A p \in Procs :
            (/\ calls[p].pc = "accept_update"
             /\ calls'[p] # calls[p]
             /\ Exists(calls[p].id)) =>
               /\ returned'.res = Success
               /\ invitations'[calls[p].id].acceptedBy = calls[p].userId
               /\ invitations'[calls[p].id].status = "accepted"]_vars

\* an accept has succeeded on an invitation whose only token was never
\* dispatched (sendMail was rejected, and the batch is still running), for a
\* userId that belongs to no account
C25_Witness ==
    /\ returned.op = "accept"
    /\ returned.res.kind = "success"
    /\ invitations[returned.id].acceptedBy = returned.userId
    /\ ~ \E u \in users : u.uid = returned.userId
    /\ nextToken = 2
    /\ \E p \in Procs :
          /\ calls[p].op = "send"
          /\ calls[p].failed =
                <<[email |-> invitations[returned.id].email,
                   reason |-> "sendMail rejected"]>>

\* the stored invitations for the email that are pending and past expiresAt
ExpiredPending(email) ==
    { id \in DOMAIN invitations :
        /\ invitations[id].email = email
        /\ invitations[id].status = "pending"
        /\ IsExpired(invitations[id].expiresAt, now) }

\* C26: a pending invitation whose expiresAt has passed still blocks creation.
\* While it is stored (neither resent nor deleted), a sendInvitations call
\* that comes to its email and finds no account records the failure
\* 'Invitation already sent' and writes nothing; no call passes the pending
\* check for the email and no record is created for it; and no token makes
\* verifyInvitation succeed on the expired record (on any record of the email
\* when all its pending records are expired).
C26_ExpiredPendingBlocksCreation ==
    /\ [][LET before == SendBefore
              after == SendAfter
              entry == after.failed[Len(after.failed)]
          IN  (/\ Len(after.failed) = Len(before.failed) + 1
               /\ ~UserExists(entry.email)
               /\ ExpiredPending(entry.email) # {}) =>
                 /\ entry.reason = "Invitation already sent"
                 /\ invitations' = invitations
                 /\ <<nextId, nextToken>>' = <<nextId, nextToken>>
                 /\ mailed' = NoMail]_vars
    /\ [][\A p \in Procs :
            (calls'[p].pc = "send_set" /\ calls[p].pc # "send_set") =>
               ExpiredPending(calls'[p].emails[calls'[p].i]) = {}]_vars
    /\ [][\A id \in DOMAIN invitations' \ DOMAIN invitations :
            ExpiredPending(invitations'[id].email) = {}]_vars
    /\ [](\A email \in Emails, token \in Tokens :
            \A r \in VerifyResponses(token, email) :
               r.kind = "valid" =>
                  /\ r.id \notin ExpiredPending(email)
                  /\ ExpiredPending(email) # PendingFor(email))

\* after the invitation expired, a sendInvitations call for its email has been
\* refused as already sent; the expired record is the only one, still pending
\* and never resent, and its token does not verify
C26_Witness ==
    /\ returned.op = "send"
    /\ returned.success = <<>>
    /\ Len(returned.failed) = 1
    /\ returned.failed[1].reason = "Invitation already sent"
    /\ ExpiredPending(returned.failed[1].email) = DOMAIN invitations
    /\ Cardinality(DOMAIN invitations) = 1
    /\ \A id \in DOMAIN invitations :
          /\ invitations[id].updatedAt = NoTime
          /\ \A r \in VerifyResponses(invitations[id].token, invitations[id].email) :
                r = Invalid("Invitation has expired")

\* C27: resendInvitation does not check expiry.  For a stored pending
\* invitation that is past its expiresAt, an administrator's resend is not
\* refused and goes on to its update (whenever generateToken can still give
\* a token); the update stores the new token and an expiresAt 7 days after
\* the call's Date.now(), which is still ahead, and while the record is
\* pending verifyInvitation with the new token and the email then returns
\* valid: true.
C27_ResendRevivesExpired ==
    /\ [](\A p \in Procs, id \in Ids :
            (/\ Free(p)
             /\ ExpiredPending(IF Exists(id) THEN invitations[id].email
                               ELSE NoString) \cap {id} # {}
             /\ nextToken <= MaxTokens) =>
               ENABLED (/\ ResendGet(p, ClaimAdmin, id)
                        /\ calls'[p].pc = "resend_update"
                        /\ calls'[p].exp = now + InviteLifetimeMs))
    /\ [][\A p \in Procs :
            (/\ calls[p].pc = "resend_update"
             /\ calls'[p] # calls[p]
             /\ Exists(calls[p].id)) =>
               LET c == calls[p]
                   doc == invitations'[c.id]
               IN  /\ doc.token = c.token
                   /\ doc.expiresAt = c.exp
                   /\ doc.expiresAt > now
                   /\ ~IsExpired(doc.expiresAt, now)
                   /\ doc.status = "pending" =>
                         \A token \in Tokens, email \in Emails :
                            (token = c.token /\ email = doc.email) =>
                               VerifyResponses(token, email)' = {Valid(doc)}]_vars

\* an invitation that had expired before it was resent has been verified with
\* the token the resend stored
C27_Witness ==
    /\ returned.op = "verify"
    /\ returned.res.kind = "valid"
    /\ LET doc == invitations[returned.res.id]
       IN  /\ doc.updatedAt # NoTime
           /\ doc.token = returned.token
           /\ TsSeconds(doc.createdAt + InviteLifetimeMs)
                 < TsSeconds(doc.expiresAt - InviteLifetimeMs)

\* C28: two concurrent acceptInvitation calls on one pending invitation with
\* different userIds can both read status 'pending' before either writes.
\* The update does not look at the status again: a call at its update whose
\* record has meanwhile been accepted by the other call still writes, returns
\* success and replaces acceptedBy (and acceptedAt); so after every
\* successful accept acceptedBy is the userId of the call that wrote last.
C28_ConcurrentAcceptsLastWriterRecorded ==
    /\ [][\A p \in Procs :
            (/\ calls[p].pc = "accept_update"
             /\ calls'[p] # calls[p]
             /\ Exists(calls[p].id)
             /\ invitations[calls[p].id].status = "accepted") =>
               /\ calls[p].id \in acceptedOk
               /\ returned' = Finish(calls[p], Success)
               /\ invitations'[calls[p].id].status = "accepted"
               /\ invitations'[calls[p].id].acceptedBy = calls[p].userId
               /\ invitations'[calls[p].id].acceptedAt = now]_vars
    /\ []((returned.op = "accept" /\ returned.res.kind = "success") =>
             invitations[returned.id].acceptedBy = returned.userId)

\* one accept has returned success and is recorded; the other call, which read
\* the record while it was pending, is at its update with another userId, and
\* its update succeeds and replaces acceptedBy
C28_Witness ==
    \E p \in Procs :
       LET c == calls[p]
       IN  /\ c.pc = "accept_update"
           /\ ~c.late
           /\ c.id \in acceptedOk
           /\ invitations[c.id].status = "accepted"
           /\ invitations[c.id].acceptedBy \in UserIds \ {c.userId}
           /\ ENABLED (/\ AcceptUpdate(p)
                       /\ returned'.res = Success
                       /\ invitations'[c.id].acceptedBy = c.userId)

\* the id has been given to a record that is no longer stored: it was deleted
Deleted(id) ==
    /\ id < nextId
    /\ id \notin DOMAIN invitations
    /\ \A p \in Procs : calls[p].pc = "send_set" => calls[p].id # id

\* C29: a deleted invitation is never resurrected.  When deleteInvitation
\* removes a record that an in-flight resendInvitation or acceptInvitation has
\* read, the update of that call fails: the call returns an error, writes
\* nothing, and in the resend case dispatches no email and retires no token;
\* and no step ever stores a record under a deleted id again.
C29_DeletedNeverResurrected ==
    /\ [][\A p \in Procs :
            (/\ calls[p].pc \in {"resend_update", "accept_update"}
             /\ calls'[p] # calls[p]
             /\ ~Exists(calls[p].id)) =>
               /\ returned'.op = calls[p].op
               /\ returned'.id = calls[p].id
               /\ returned'.res.kind = "error"
               /\ returned'.res.msg = "NOT_FOUND: No document to update"
               /\ invitations' = invitations
               /\ mailed' = NoMail
               /\ acceptedOk' = acceptedOk
               /\ retired' = retired]_vars
    /\ [][\A id \in Ids : Deleted(id) => Deleted(id)']_vars
    /\ [](\A p \in Procs :
            calls[p].pc \in {"resend_update", "accept_update"} =>
               Exists(calls[p].id) \/ Deleted(calls[p].id))

\* a resend whose record was deleted after it had read it has returned its
\* error: the record is not stored, no mail has been dispatched, and the token
\* the call generated is on no record
C29_Witness ==
    /\ returned.op = "resend"
    /\ returned.res.kind = "error"
    /\ returned.res.msg = "NOT_FOUND: No document to update"
    /\ Deleted(returned.id)
    /\ mailed = NoMail
    /\ returned.token \in Tokens
    /\ Dormant(returned.token)

\* C30: the registration page does not verify again at submit time and
\* swallows the failure of acceptInvitation.  The submit makes no call; once
\* register has resolved the page only calls acceptInvitation, changes no
\* record by that call's arrival, and ends showing the success whatever the
\* call returns; register can resolve in every state of the store, and so also
\* when the verified invitation has been deleted, accepted by someone else,
\* resent or has expired.  The account then exists while its invitation may be
\* absent or not marked accepted by it.
C30_NoReverifyAcceptFailureSwallowed ==
    /\ [][(page.pc = "form" /\ page'.pc = "registering") =>
            UNCHANGED backend]_vars
    /\ [][(page.pc = "registering" /\ page'.registered = "ok") =>
            IF page.invitation = NoInvitation
            THEN UNCHANGED backend /\ page'.pc = "done"
            ELSE /\ returned'.op \in {"none", "accept"}
                 /\ invitations' = invitations
                 /\ page'.accept.invitationId = page.invitation.id
                 /\ \/ page'.pc = "accepting"
                    \/ /\ page'.pc = "done"
                       /\ page'.success
                       /\ returned'.res.kind = "error"]_vars
    /\ [][(page.pc = "accepting" /\ page' # page) =>
            /\ page'.pc = "done"
            /\ returned'.op = "accept"
            /\ returned'.res.kind \in {"success", "error"}]_vars
    /\ [](page.pc = "done" =>
            /\ page.success
            /\ page.registered = "ok"
            /\ page.error = NoString)
    /\ []((page.pc = "registering" /\ Ready) =>
            ENABLED (PageRegister(TRUE) /\ page'.registered = "ok"))

\* the invitation was deleted after the page had verified it: register has
\* created the account, acceptInvitation has failed, and the page shows the
\* success
C30_Witness ==
    /\ page.pc = "done"
    /\ page.success
    /\ page.registered = "ok"
    /\ page.invitation # NoInvitation
    /\ returned.op = "accept"
    /\ returned.id = page.invitation.id
    /\ returned.userId = page.email
    /\ returned.res.kind = "error"
    /\ ~Exists(page.invitation.id)

====
